---- MODULE Spec2Model ----
(***************************************************************************)
(* Model of subiquity's FilesystemController                               *)
(* (subiquity/controllers/filesystem.py): the add-partition handler with   *)
(* its automatic boot-partition injection, the curtin persistence handler  *)
(* and the next/previous disk-information cursor.                          *)
(*                                                                         *)
(* The disk model (Blockdev.add_partition, FilesystemModel.bootable,       *)
(* reset, get_available_disk_names), preserve_action and the curtin        *)
(* writers live in modules of the repository that are not part of the      *)
(* sources at hand; they are modelled from the specification.              *)
(***************************************************************************)
EXTENDS Integers, Sequences, FiniteSets, TLC

VARIABLES disks, uefi, available, calls, signals, last, shown, nav, files, fs

vars == <<disks, uefi, available, calls, signals, last, shown, nav, files, fs>>

----------------------------------------------------------------------------
(* Bounds of the model *)

\* add_disk_partition_handler is exercised while the model holds fewer
\* than MaxParts partitions over all disks
MaxParts == 2
\* longest action list handed to filesystem_handler
MaxActions == 1

MiB == 1024 * 1024

None == "None"

\* disks of the partitioning model and their sizes in bytes
DiskNames == <<"sda", "sdb">>
DiskSize == [sda |-> 1024 * MiB, sdb |-> 256 * MiB]

\* disk names the cursor model draws its list of available disks from
CursorNames == {"sda", "sdb", "sdc", "sdd"}

\* the requests the add-partition view can send
ReqPartnums == {1, 3}
ReqBytes == {1 * MiB, 600 * MiB, 1100 * MiB}
ReqFstypes == {"ext4", "swap"}
ReqMountpoints == {"/", None}
Requests == [partnum : ReqPartnums, bytes : ReqBytes,
             fstype : ReqFstypes, mountpoint : ReqMountpoints]

\* curtin actions the filesystem view can hand over
ActionIds == {"disk0", "part1"}

----------------------------------------------------------------------------
(* Program constants *)

BIOS_GRUB_SIZE_BYTES == 2 * 1024 * 1024
UEFI_GRUB_SIZE_BYTES == 512 * 1024 * 1024

----------------------------------------------------------------------------
(* Helpers *)

Range(s) == {s[i] : i \in DOMAIN s}

RECURSIVE SumLen(_, _)
SumLen(ds, names) ==
    IF names = {} THEN 0
    ELSE LET n == CHOOSE x \in names : TRUE
         IN Len(ds[n].partitions) + SumLen(ds, names \ {n})

TotalParts(ds) == SumLen(ds, DOMAIN ds)

----------------------------------------------------------------------------
(* The disk model *)

\* a freshly probed disk: no partitions, all space free
NewDisk(parttype, size) ==
    [parttype |-> parttype, size |-> size, freespace |-> size,
     partitions |-> <<>>]

\* Blockdev.add_partition(partnum, size, fstype, mountpoint=None, flag=None):
\* raises when the size is negative or exceeds the free space, else appends
\* the partition, takes its size from the free space and returns the size
add_partition(disk, a) ==
    IF a.size < 0 \/ a.size > disk.freespace
    THEN [ok |-> FALSE, disk |-> disk, size_added |-> 0]
    ELSE [ok |-> TRUE,
          disk |-> [disk EXCEPT !.partitions = Append(@, a),
                                !.freespace = @ - a.size],
          size_added |-> a.size]

\* FilesystemModel.bootable(): some disk holds a partition with a boot role
bootable(ds) ==
    \E d \in DOMAIN ds : \E i \in DOMAIN ds[d].partitions :
        ds[d].partitions[i].flag # None

\* FilesystemModel.reset(): back to the freshly probed disks
reset_model(ds) == [d \in DOMAIN ds |-> NewDisk(ds[d].parttype, ds[d].size)]

\* FilesystemModel.get_available_disk_names()
get_available_disk_names == available

----------------------------------------------------------------------------
(* add_disk_partition_handler *)

\* the disk-local variant of the bootable check
system_bootable_this_disk(ds, d) ==
    \E i \in DOMAIN ds[d].partitions : ds[d].partitions[i].flag # None

\* system_bootable = self.model.bootable()
system_bootable(ds, d) == bootable(ds)

NeedsBootPartitionIgnoreBootable(ds, d) ==
    /\ ds[d].parttype = "gpt"
    /\ Len(ds[d].partitions) = 0

\* the condition guarding the boot-partition injection
NeedsBootPartition(ds, d) ==
    /\ system_bootable(ds, d) = FALSE
    /\ ds[d].parttype = "gpt"
    /\ Len(ds[d].partitions) = 0

BootPartArgsSwapped(is_uefi) ==
    IF is_uefi
    THEN [partnum |-> 1, size |-> BIOS_GRUB_SIZE_BYTES, flag |-> "bios_grub",
          fstype |-> "fat32", mountpoint |-> "/boot/efi"]
    ELSE [partnum |-> 1, size |-> UEFI_GRUB_SIZE_BYTES, fstype |-> None,
          flag |-> "bios_grub", mountpoint |-> None]

\* the arguments of the add_partition call that creates the boot partition
BootPartArgs(is_uefi) ==
    IF is_uefi
    THEN [partnum |-> 1, size |-> UEFI_GRUB_SIZE_BYTES, flag |-> "bios_grub",
          fstype |-> "fat32", mountpoint |-> "/boot/efi"]
    ELSE [partnum |-> 1, size |-> BIOS_GRUB_SIZE_BYTES, fstype |-> None,
          flag |-> "bios_grub", mountpoint |-> None]

AdjustSpecKeepPartnum(spec, size_added) ==
    [spec EXCEPT !.bytes = @ - size_added]

\* spec['bytes'] -= size_added; spec['partnum'] = 2
AdjustSpec(spec, size_added) ==
    [spec EXCEPT !.bytes = @ - size_added, !.partnum = 2]

UserPartArgsAlwaysMount(spec) ==
    [partnum |-> spec.partnum, size |-> spec.bytes, fstype |-> spec.fstype,
     mountpoint |-> spec.mountpoint, flag |-> None]

\* the arguments of the add_partition call for the user's request
UserPartArgs(spec) ==
    IF spec.fstype \in {"swap"}
    THEN [partnum |-> spec.partnum, size |-> spec.bytes,
          fstype |-> spec.fstype, mountpoint |-> None, flag |-> None]
    ELSE [partnum |-> spec.partnum, size |-> spec.bytes,
          fstype |-> spec.fstype, mountpoint |-> spec.mountpoint,
          flag |-> None]

\* the signals emitted from the except clause on; the except clause has no
\* return, so the lines after it run on failure too
HandlerSignals(failed, d) ==
    (IF failed THEN << <<"filesystem:add-disk-partition", d>> >> ELSE <<>>)
    \o << <<"filesystem:show-disk-partition", d>> >>

Call(a, ok) == [args |-> a, ok |-> ok]

\* the whole handler as a function of the model, the firmware mode and the
\* inputs: the add_partition calls made, the disk left behind, the signals
add_disk_partition_result(ds, is_uefi, d, spec) ==
    LET current_disk == ds[d]
        inject   == NeedsBootPartition(ds, d)
        bootArgs == BootPartArgs(is_uefi)
        r1       == add_partition(current_disk, bootArgs)
        bootFailed == inject /\ ~r1.ok
        spec2    == IF inject THEN AdjustSpec(spec, r1.size_added) ELSE spec
        disk1    == IF inject THEN r1.disk ELSE current_disk
        userArgs == UserPartArgs(spec2)
        r2       == add_partition(disk1, userArgs)
        failed   == bootFailed \/ ~r2.ok
    IN [calls |-> (IF inject THEN <<Call(bootArgs, r1.ok)>> ELSE <<>>)
                  \o (IF bootFailed THEN <<>>
                      ELSE <<Call(userArgs, r2.ok)>>),
        disk |-> IF bootFailed THEN current_disk
                 ELSE IF r2.ok THEN r2.disk ELSE disk1,
        failed |-> failed,
        signals |-> HandlerSignals(failed, d)]

NoSpec == [partnum |-> 0, bytes |-> 0, fstype |-> None, mountpoint |-> None]

add_disk_partition_handler(d, spec) ==
    /\ TotalParts(disks) < MaxParts
    /\ LET r == add_disk_partition_result(disks, uefi, d, spec)
       IN /\ disks' = [disks EXCEPT ![d] = r.disk]
          /\ calls' = r.calls
          /\ signals' = r.signals
          /\ last' = [op |-> "add_disk_partition_handler", disk |-> d,
                      spec |-> spec, failed |-> r.failed, pre |-> disks]
    /\ UNCHANGED <<uefi, available, shown, nav, files, fs>>

\* filesystem(reset): resets the model when asked to, then shows the view
filesystem(reset) ==
    /\ disks' = IF reset THEN reset_model(disks) ELSE disks
    /\ calls' = <<>>
    /\ signals' = <<>>
    /\ last' = [op |-> "filesystem", disk |-> None, spec |-> NoSpec,
                failed |-> FALSE, pre |-> disks]
    /\ UNCHANGED <<uefi, available, shown, nav, files, fs>>

----------------------------------------------------------------------------
(* filesystem_handler *)

\* preserve_action(a): the action marked to be preserved
preserve_action(a) == [a EXCEPT !.preserve = TRUE]

\* [preserve_action(a) for a in actions]
preserved_actions(actions) ==
    [i \in DOMAIN actions |-> preserve_action(actions[i])]

Action(id) == [id |-> id, preserve |-> FALSE]

RECURSIVE SeqsUpTo(_, _)
SeqsUpTo(S, n) ==
    IF n = 0 THEN {<<>>}
    ELSE LET shorter == SeqsUpTo(S, n - 1)
         IN shorter \cup {Append(s, x) : s \in shorter, x \in S}

\* the values of the actions argument: None or a list of actions
ActionsArgs ==
    {[isNone |-> TRUE, list |-> <<>>]}
    \cup {[isNone |-> FALSE, list |-> l] :
            l \in SeqsUpTo({Action(id) : id \in ActionIds}, MaxActions)}

\* curtin_write_storage_actions / curtin_write_preserved_actions: the write
\* raises PermissionError when the target is not writable (denied), else
\* the file holds the actions
curtin_write(fl, name, content) ==
    [fl EXCEPT ![name] = [written |-> TRUE, content |-> content]]

filesystem_handler_result_no_return(fl, reset, actions, denyStorage, denyPreserved) ==
    LET s0 == IF actions.isNone /\ reset = FALSE
              THEN << <<"network:show", None>> >> ELSE <<>>
        s1 == IF denyStorage
              THEN s0 \o << <<"filesystem:error",
                              "curtin_write_storage_actions">> >>
              ELSE s0
        fl1 == IF denyStorage THEN fl
               ELSE curtin_write(fl, "storage", actions.list)
        w1 == IF denyStorage THEN <<>> ELSE <<"storage">>
    IN IF actions.isNone
       THEN [files |-> fl1, writes |-> w1, raised |-> "TypeError",
             signals |-> s1]
       ELSE IF denyPreserved
       THEN [files |-> fl1, writes |-> w1, raised |-> None,
             signals |-> s1 \o << <<"filesystem:error",
                                    "curtin_write_preserved_actions">>,
                                  <<"identity:show", None>> >>]
       ELSE [files |-> curtin_write(fl1, "preserved",
                                    preserved_actions(actions.list)),
             writes |-> w1 \o <<"preserved">>, raised |-> None,
             signals |-> s1 \o << <<"identity:show", None>> >>]

\* the whole handler: the signals emitted, the writes done in order, the
\* files left behind and the exception that escapes, if any
filesystem_handler_result(fl, reset, actions, denyStorage, denyPreserved) ==
    LET s0 == IF actions.isNone /\ reset = FALSE
              THEN << <<"network:show", None>> >> ELSE <<>>
    IN IF denyStorage
       THEN [files |-> fl, writes |-> <<>>, raised |-> None,
             signals |-> s0 \o << <<"filesystem:error",
                                    "curtin_write_storage_actions">> >>]
       ELSE LET fl1 == curtin_write(fl, "storage", actions.list)
            IN IF actions.isNone
               \* iterating over None raises TypeError out of the handler
               THEN [files |-> fl1, writes |-> <<"storage">>,
                     raised |-> "TypeError", signals |-> s0]
               ELSE IF denyPreserved
               THEN [files |-> fl1, writes |-> <<"storage">>,
                     raised |-> None,
                     signals |-> s0 \o << <<"filesystem:error",
                                   "curtin_write_preserved_actions">> >>]
               ELSE [files |-> curtin_write(fl1, "preserved",
                                    preserved_actions(actions.list)),
                     writes |-> <<"storage", "preserved">>,
                     raised |-> None,
                     signals |-> s0 \o << <<"identity:show", None>> >>]

filesystem_handler(reset, actions, denyStorage, denyPreserved) ==
    /\ LET r == filesystem_handler_result(files, reset, actions,
                                          denyStorage, denyPreserved)
       IN /\ files' = r.files
          /\ signals' = r.signals
          /\ fs' = [op |-> "filesystem_handler", reset |-> reset,
                    actions |-> actions, denyStorage |-> denyStorage,
                    denyPreserved |-> denyPreserved, writes |-> r.writes,
                    raised |-> r.raised, pre |-> files]
    /\ UNCHANGED <<disks, uefi, available, calls, last, shown, nav>>

----------------------------------------------------------------------------
(* Disk information cursor *)

\* list.index(x): position of the first occurrence, counted from 0
index(l, x) == (CHOOSE i \in DOMAIN l :
                   l[i] = x /\ \A j \in DOMAIN l : l[j] = x => i <= j) - 1

\* l[i] with i counted from 0
item(l, i) == l[i + 1]

next_device_no_wrap(avail, curr_device) ==
    LET idx == index(avail, curr_device)
        next_idx == IF idx + 1 < Len(avail) THEN idx + 1 ELSE idx
    IN item(avail, next_idx)

\* next_idx = (idx + 1) % len(available)
next_device(avail, curr_device) ==
    LET idx == index(avail, curr_device)
        next_idx == (idx + 1) % Len(avail)
    IN item(avail, next_idx)

\* next_idx = (idx - 1) % len(available)
prev_device(avail, curr_device) ==
    LET idx == index(avail, curr_device)
        next_idx == (idx - 1) % Len(avail)
    IN item(avail, next_idx)

\* show_disk_information(device): the disk information view of the device
show_disk_information(device) == shown' = device

show_disk_information_next(curr_device) ==
    /\ IF curr_device \in Range(get_available_disk_names)
       THEN /\ show_disk_information(
                   next_device(get_available_disk_names, curr_device))
            /\ nav' = [op |-> "next", curr |-> curr_device, raised |-> None]
       \* list.index raises ValueError, nothing is shown
       ELSE /\ shown' = shown
            /\ nav' = [op |-> "next", curr |-> curr_device,
                       raised |-> "ValueError"]
    /\ UNCHANGED <<disks, uefi, available, calls, signals, last, files, fs>>

show_disk_information_prev(curr_device) ==
    /\ IF curr_device \in Range(get_available_disk_names)
       THEN /\ show_disk_information(
                   prev_device(get_available_disk_names, curr_device))
            /\ nav' = [op |-> "prev", curr |-> curr_device, raised |-> None]
       ELSE /\ shown' = shown
            /\ nav' = [op |-> "prev", curr |-> curr_device,
                       raised |-> "ValueError"]
    /\ UNCHANGED <<disks, uefi, available, calls, signals, last, files, fs>>

----------------------------------------------------------------------------
(* Initial states *)

InitWith(avail) ==
    /\ \E pt \in [Range(avail) -> {"gpt", "mbr"}] :
         disks = [d \in Range(avail) |->
                    NewDisk(pt[d], IF d \in DOMAIN DiskSize THEN DiskSize[d]
                                   ELSE 1024 * MiB)]
    /\ uefi \in BOOLEAN
    /\ available = avail
    /\ calls = <<>>
    /\ signals = <<>>
    /\ last = [op |-> "init", disk |-> None, spec |-> NoSpec,
               failed |-> FALSE, pre |-> disks]
    /\ shown = None
    /\ nav = [op |-> "init", curr |-> None, raised |-> None]
    /\ files = [storage |-> [written |-> FALSE, content |-> <<>>],
                preserved |-> [written |-> FALSE, content |-> <<>>]]
    /\ fs = [op |-> "init", reset |-> FALSE,
             actions |-> [isNone |-> TRUE, list |-> <<>>],
             denyStorage |-> FALSE, denyPreserved |-> FALSE,
             writes |-> <<>>, raised |-> None, pre |-> files]

Init == InitWith(DiskNames)

Next ==
    \/ \E d \in Range(DiskNames), spec \in Requests :
          add_disk_partition_handler(d, spec)
    \/ \E reset \in BOOLEAN : filesystem(reset)

Spec == Init /\ [][Next]_vars

\* the persistence handler on its own
NextFS ==
    \E reset \in BOOLEAN, actions \in ActionsArgs,
       denyStorage \in BOOLEAN, denyPreserved \in BOOLEAN :
          filesystem_handler(reset, actions, denyStorage, denyPreserved)

SpecFS == Init /\ [][NextFS]_vars

\* the cursor over every duplicate-free list of available disks
DupFreeSeqs(S) ==
    {s \in SeqsUpTo(S, Cardinality(S)) :
        \A i, j \in DOMAIN s : s[i] = s[j] => i = j}

InitCursor == \E avail \in DupFreeSeqs(CursorNames) : InitWith(avail)

NextCursor ==
    \/ \E c \in CursorNames : show_disk_information_next(c)
    \/ \E c \in CursorNames : show_disk_information_prev(c)

SpecCursor == InitCursor /\ [][NextCursor]_vars

----------------------------------------------------------------------------
(* Properties of add_disk_partition_handler *)

Emitted(name) == \E i \in DOMAIN signals : signals[i][1] = name

EmittedWith(name, arg) == \E i \in DOMAIN signals : signals[i] = <<name, arg>>

IsAdd == last.op = "add_disk_partition_handler"

\* the target disk as it was when the handler was called
PreDisk == last.pre[last.disk]

\* the three conditions of the injection, on the state before the call
InjectCase ==
    /\ IsAdd
    /\ ~bootable(last.pre)
    /\ PreDisk.parttype = "gpt"
    /\ Len(PreDisk.partitions) = 0

OtherDisksUntouched ==
    \A d \in DOMAIN disks : d # last.disk => disks[d] = last.pre[d]

C3_InjectionOnlyWhenAllThree ==
    IsAdd =>
        /\ (\E i \in DOMAIN calls : calls[i].args.flag # None) => InjectCase
        /\ ~InjectCase =>
              /\ Len(calls) = 1
              /\ calls[1].args.partnum = last.spec.partnum
              /\ calls[1].args.size = last.spec.bytes
              /\ calls[1].args.flag = None
              /\ calls[1].ok = ~last.failed
              /\ ~last.failed =>
                    disks[last.disk].partitions
                       = Append(PreDisk.partitions, calls[1].args)
              /\ last.failed =>
                    disks[last.disk].partitions = PreDisk.partitions

\* another disk made the system bootable; the target is an empty gpt disk
C3_Witness ==
    /\ IsAdd /\ ~last.failed
    /\ bootable(last.pre)
    /\ PreDisk.parttype = "gpt"
    /\ Len(PreDisk.partitions) = 0
    /\ Len(disks[last.disk].partitions) = 1
    /\ disks[last.disk].partitions[1].partnum = 3

\* C4: whenever the handler fails to add the user's partition, the failure
\* is reported and the disks, partitions and free space, are exactly what
\* they were before the call.
C4_AllOrNothing ==
    (IsAdd /\ last.failed) =>
        /\ EmittedWith("filesystem:add-disk-partition", last.disk)
        /\ disks = last.pre

NumBootParts(ds, d) ==
    Cardinality({i \in DOMAIN ds[d].partitions :
                    ds[d].partitions[i].flag # None})

RECURSIVE SumBootParts(_, _)
SumBootParts(ds, names) ==
    IF names = {} THEN 0
    ELSE LET n == CHOOSE x \in names : TRUE
         IN NumBootParts(ds, n) + SumBootParts(ds, names \ {n})

\* C5: over all disks of the model there is at most one injected boot
\* partition, whatever calls were made.
C5_AtMostOneBootPartition == SumBootParts(disks, DOMAIN disks) <= 1

\* one disk carries the boot partition and a later call added a partition
\* to another empty gpt disk
C5_Witness ==
    /\ IsAdd /\ ~last.failed
    /\ PreDisk.parttype = "gpt"
    /\ Len(PreDisk.partitions) = 0
    /\ \E d \in DOMAIN disks :
          d # last.disk /\ NumBootParts(last.pre, d) = 1
    /\ SumBootParts(disks, DOMAIN disks) = 1

\* C6: the injected boot partition carries the role of the firmware mode:
\* efi in UEFI mode, bios_grub in legacy mode.
C6_BootRoleMatchesFirmware ==
    (InjectCase /\ Len(calls) >= 1) =>
        calls[1].args.flag = IF uefi THEN "efi" ELSE "bios_grub"

\* the addition made for the user's request, when the handler got to it
UserCall == calls[Len(calls)]

HasUserCall == IsAdd /\ Len(calls) >= 1 /\ UserCall.args.flag = None

\* C7: a swap request is added without a mountpoint whatever mountpoint it
\* supplied; any other request is added with its mountpoint unchanged.
C7_SwapHasNoMountpoint ==
    HasUserCall =>
        /\ UserCall.args.mountpoint =
              IF last.spec.fstype = "swap" THEN None
              ELSE last.spec.mountpoint
        /\ ~last.failed =>
              LET ps == disks[last.disk].partitions
              IN ps[Len(ps)].mountpoint =
                    IF last.spec.fstype = "swap" THEN None
                    ELSE last.spec.mountpoint

C7_Witness ==
    /\ HasUserCall /\ ~last.failed
    /\ last.spec.fstype = "swap"
    /\ last.spec.mountpoint = "/"
    /\ LET ps == disks[last.disk].partitions
       IN ps[Len(ps)].fstype = "swap" /\ ps[Len(ps)].mountpoint = None

\* C10: when an addition raises, the handler emits
\* filesystem:add-disk-partition for the disk and not
\* filesystem:show-disk-partition, which is emitted only when every
\* addition of the call succeeded.
C10_FailureReturnsToEntryScreen ==
    IsAdd =>
        /\ last.failed =>
              /\ EmittedWith("filesystem:add-disk-partition", last.disk)
              /\ ~Emitted("filesystem:show-disk-partition")
        /\ Emitted("filesystem:show-disk-partition") => ~last.failed

----------------------------------------------------------------------------
(* Properties of filesystem_handler *)

IsFS == fs.op = "filesystem_handler"

\* the write of the preserved actions is reached and denied
PreservedDenied == ~fs.denyStorage /\ ~fs.actions.isNone /\ fs.denyPreserved

\* C8: a denied write of the storage actions emits filesystem:error naming
\* curtin_write_storage_actions, leaves the preserved actions unwritten and
\* emits no identity:show; a denied write of the preserved actions emits
\* filesystem:error naming curtin_write_preserved_actions and no
\* identity:show; identity:show is emitted only after both writes
\* succeeded, storage actions first, and it is the last signal.
C8_PersistenceFailureSurfaced ==
    IsFS =>
        /\ fs.denyStorage =>
              /\ EmittedWith("filesystem:error",
                             "curtin_write_storage_actions")
              /\ fs.writes = <<>>
              /\ files = fs.pre
              /\ ~Emitted("identity:show")
        /\ PreservedDenied =>
              /\ EmittedWith("filesystem:error",
                             "curtin_write_preserved_actions")
              /\ files.preserved = fs.pre.preserved
              /\ ~Emitted("identity:show")
        /\ Emitted("identity:show") =>
              /\ fs.writes = <<"storage", "preserved">>
              /\ ~fs.denyStorage /\ ~fs.denyPreserved
              /\ ~Emitted("filesystem:error")
              /\ signals[Len(signals)][1] = "identity:show"
              /\ files.storage = [written |-> TRUE,
                                  content |-> fs.actions.list]
              /\ files.preserved.written

\* the storage actions of an earlier call are on file and this call's
\* write of the storage actions is denied
C8_Witness ==
    /\ IsFS /\ fs.denyStorage
    /\ fs.actions.list # <<>>
    /\ fs.pre.storage.written /\ fs.pre.preserved.written
    /\ EmittedWith("filesystem:error", "curtin_write_storage_actions")

----------------------------------------------------------------------------
(* Properties of the disk information cursor *)

\* the position, counted from 0, of a name in the list of available disks
PosOf(name) == CHOOSE i \in 0..(Len(available) - 1) : available[i + 1] = name

NavOk == nav.op \in {"next", "prev"} /\ nav.raised = None

\* C9: from the disk at index i of a non-empty list of available disks,
\* next shows the disk at (i + 1) mod length and prev the one at
\* (i - 1 + length) mod length: next from the last disk shows the first,
\* prev from the first shows the last, and prev after next leads back.
C9_CursorWraps ==
    NavOk =>
        LET n == Len(available)
            i == PosOf(nav.curr)
        IN /\ n > 0
           /\ nav.op = "next" =>
                 /\ shown = available[((i + 1) % n) + 1]
                 /\ i = n - 1 => shown = available[1]
                 /\ i < n - 1 => shown = available[i + 2]
                 /\ prev_device(available, shown) = nav.curr
           /\ nav.op = "prev" =>
                 /\ shown = available[((i - 1 + n) % n) + 1]
                 /\ i = 0 => shown = available[n]
                 /\ i > 0 => shown = available[i]
                 /\ next_device(available, shown) = nav.curr

\* next from the last of three disks shows the first
C9_Witness ==
    /\ NavOk /\ nav.op = "next"
    /\ Len(available) = 3
    /\ nav.curr = available[3]
    /\ shown = available[1]

====
